---- MODULE Spec2Model ----
(***************************************************************************)
(* Model of src/src/primitive.rs: the implicit-function objects, the       *)
(* transform wrapper, the smooth boolean composites (Bool<Mixer>) and the  *)
(* list-folding tree builders.                                             *)
(*                                                                         *)
(* Three specifications share the module:                                  *)
(*   SpecBuild  - from_vec / subtraction_from_vec on owned vectors;        *)
(*   SpecObj    - boxed objects on a heap: new, clone, apply_transform;    *)
(*   SpecNormal - Bool::value / Bool::normal at a query point, with the    *)
(*                calls made on the children recorded.                     *)
(***************************************************************************)
EXTENDS Integers, Sequences, FiniteSets, TLC

VARIABLES vec, call, heap, roots, scene, obs

vars == <<vec, call, heap, roots, scene, obs>>

buildVars == <<vec, call>>

objVars == <<heap, roots>>

normalVars == <<scene, obs>>

\* ---------------------------------------------------------------- bounds
\* longest input vector handed to the builders
MaxLen == 5
\* number of different sphere radii a caller constructs
MaxRadius == 2
\* largest blend radius a caller passes
MaxR == 2
\* number of heap cells available for boxes
MaxAddr == 6
\* total length of the transforms stored at all leaves of the heap
MaxStored == 3
\* child field values at the query point range over -MaxVal..MaxVal
MaxVal == 2

\* ------------------------------------------------------------- Transform
\* A Transform is kept as the sequence of elementary maps that were
\* concatenated to build it: the free monoid over the named constructors.
\* Any equation between concat-expressions that holds here holds for every
\* associative concat with identity.
TransformIdentity == <<>>

TransformTranslate(v) == << <<"translate", v>> >>

TransformRotate(v) == << <<"rotate", v>> >>

TransformScale(s) == << <<"scale", s>> >>

concat(self, other) == self \o other

\* --------------------------------------------------------------- Mixers
MixerKinds == {"Union", "Intersection", "Subtraction"}

MixerNew(kind, r) == [kind |-> kind, r |-> r]

\* ---------------------------------------------------- objects as values
\* SpherePrimitive::new
SpherePrimitiveNew(r) == [radius |-> r]

\* Sphere::new : PrimitiveWrapper { primitive, transform: identity }
SphereNewValue(r) ==
    [node |-> "PrimitiveWrapper", primitive |-> SpherePrimitiveNew(r),
     transform |-> TransformIdentity]

\* Bool::<T>::new
BoolNewSwapped(kind, a, b, r) ==
    [node |-> "Bool", a |-> b, b |-> a, mixer |-> MixerNew(kind, r)]

BoolNew(kind, a, b, r) ==
    [node |-> "Bool", a |-> a, b |-> b, mixer |-> MixerNew(kind, r)]

\* ------------------------------------------------------ Option and Vec
None == [some |-> FALSE]

Some(x) == [some |-> TRUE, val |-> x]

\* a panic unwinds through every caller
Panic == [panic |-> TRUE]

IsPanic(x) == x = Panic

\* Option::unwrap
unwrap(opt) == IF IsPanic(opt) \/ opt = None THEN Panic ELSE opt.val

\* Vec::pop : [rest of the vector, Option of the last element]
pop(v) ==
    IF Len(v) = 0 THEN [vec |-> v, ret |-> None]
    ELSE [vec |-> SubSeq(v, 1, Len(v) - 1), ret |-> Some(v[Len(v)])]

\* Vec::split_off(at) : self keeps [0, at), the result holds [at, len)
split_off(v, at) ==
    IF at > Len(v) THEN Panic
    ELSE [vec |-> SubSeq(v, 1, at), ret |-> SubSeq(v, at + 1, Len(v))]

\* Some(Bool::new(x, y, r)) where x, y come out of unwrap
SomeBool(kind, x, y, r) ==
    IF IsPanic(x) \/ IsPanic(y) THEN Panic ELSE Some(BoolNew(kind, x, y, r))

\* a linear fold: the head joined with the fold of the tail
RECURSIVE from_vec_linear(_, _, _)
from_vec_linear(kind, v, r) ==
    CASE Len(v) = 0 -> None
      [] Len(v) = 1 -> LET h == unwrap(pop(v).ret)
                       IN IF IsPanic(h) THEN Panic ELSE Some(h)
      [] OTHER ->
            LET s == split_off(v, 1)
            IN IF IsPanic(s) THEN Panic
               ELSE SomeBool(kind,
                             unwrap(from_vec_linear(kind, s.vec, r)),
                             unwrap(from_vec_linear(kind, s.ret, r)),
                             r)

\* the midpoint taken as (len - 1) / 2
RECURSIVE from_vec_low_mid(_, _, _)
from_vec_low_mid(kind, v, r) ==
    CASE Len(v) = 0 -> None
      [] Len(v) = 1 -> LET h == unwrap(pop(v).ret)
                       IN IF IsPanic(h) THEN Panic ELSE Some(h)
      [] OTHER ->
            LET l2 == (Len(v) - 1) \div 2
                s  == split_off(v, l2)
                x  == unwrap(from_vec_low_mid(kind, s.vec, r))
            IN IF IsPanic(s) \/ IsPanic(x) THEN Panic
               ELSE SomeBool(kind, x,
                             unwrap(from_vec_low_mid(kind, s.ret, r)),
                             r)

\* Bool::<T>::from_vec
RECURSIVE from_vec(_, _, _)
from_vec(kind, v, r) ==
    CASE Len(v) = 0 -> None
      [] Len(v) = 1 -> LET h == unwrap(pop(v).ret)
                       IN IF IsPanic(h) THEN Panic ELSE Some(h)
      [] OTHER ->
            LET l2 == Len(v) \div 2
                s  == split_off(v, l2)
            IN IF IsPanic(s) THEN Panic
               ELSE SomeBool(kind,
                             unwrap(from_vec(kind, s.vec, r)),
                             unwrap(from_vec(kind, s.ret, r)),
                             r)

subtraction_from_vec_balanced(v, r) == from_vec("Subtraction", v, r)

\* Bool<SubtractionMixer>::subtraction_from_vec
subtraction_from_vec(v, r) ==
    CASE Len(v) = 0 -> None
      [] Len(v) = 1 -> LET h == unwrap(pop(v).ret)
                       IN IF IsPanic(h) THEN Panic ELSE Some(h)
      [] OTHER ->
            LET v_rest == split_off(v, 1)
            IN IF IsPanic(v_rest) THEN Panic
               ELSE SomeBool("Subtraction",
                             unwrap(pop(v_rest.vec).ret),
                             unwrap(from_vec("Union", v_rest.ret, r)),
                             r)

\* ------------------------------------------------- SpecBuild: the builders
\* the objects a caller puts into the vector
Pool == {SphereNewValue(r) : r \in 1..MaxRadius}

BlendRadii == 0..MaxR

NoCall == [fn |-> "none"]

\* caller: v.push(o)
Push(o) ==
    /\ UNCHANGED <<objVars, normalVars>>
    /\ call = NoCall
    /\ Len(vec) < MaxLen
    /\ vec' = Append(vec, o)
    /\ UNCHANGED call

\* caller: T::from_vec(v, r); the vector is moved into the call
FromVec(kind, r) ==
    /\ UNCHANGED <<objVars, normalVars>>
    /\ call = NoCall
    /\ call' = [fn |-> "from_vec", mixer |-> kind, v |-> vec, r |-> r,
                ret |-> from_vec(kind, vec, r)]
    /\ vec' = <<>>

\* caller: Subtraction::subtraction_from_vec(v, r)
SubtractionFromVec(r) ==
    /\ UNCHANGED <<objVars, normalVars>>
    /\ call = NoCall
    /\ call' = [fn |-> "subtraction_from_vec", mixer |-> "Subtraction",
                v |-> vec, r |-> r, ret |-> subtraction_from_vec(vec, r)]
    /\ vec' = <<>>

\* caller drops the returned Option and starts over
DropResult ==
    /\ UNCHANGED <<objVars, normalVars>>
    /\ call # NoCall
    /\ call' = NoCall
    /\ UNCHANGED vec

\* ------------------------------------------------ SpecObj: boxes on a heap
\* A Box<Object> is an address of the heap; Bool.a and Bool.b hold addresses.
Addrs == 1..MaxAddr

Free == [node |-> "Free"]

FreeAddrs(h) == {x \in Addrs : h[x] = Free}

\* Box::new : the value is placed in a fresh cell
BoxNew(h, val) ==
    LET p == CHOOSE x \in FreeAddrs(h) : \A y \in FreeAddrs(h) : x <= y
    IN [heap |-> [h EXCEPT ![p] = val], ptr |-> p]

\* number of cells of the subtree owned by the box x
RECURSIVE Size(_, _)
Size(h, x) ==
    IF h[x].node = "Bool" THEN 1 + Size(h, h[x].a) + Size(h, h[x].b) ELSE 1

\* the cells of the subtree owned by the box x
RECURSIVE Cells(_, _)
Cells(h, x) ==
    IF h[x].node = "Bool"
    THEN {x} \cup Cells(h, h[x].a) \cup Cells(h, h[x].b)
    ELSE {x}

\* the object owned by the box x, as a value
RECURSIVE ObjectAt(_, _)
ObjectAt(h, x) ==
    IF h[x].node = "Bool"
    THEN [node |-> "Bool", a |-> ObjectAt(h, h[x].a), b |-> ObjectAt(h, h[x].b),
          mixer |-> h[x].mixer]
    ELSE h[x]

\* Debug of a Transform: the elementary maps in order
RECURSIVE TransformFmt(_)
TransformFmt(t) ==
    IF t = <<>> THEN ""
    ELSE t[1][1] \o "(" \o ToString(t[1][2]) \o ")" \o TransformFmt(Tail(t))

\* the derived Debug of PrimitiveWrapper, SpherePrimitive, Bool and the mixers
RECURSIVE DebugFmt(_)
DebugFmt(o) ==
    IF o.node = "Bool"
    THEN "Bool { a: " \o DebugFmt(o.a) \o ", b: " \o DebugFmt(o.b)
            \o ", mixer: " \o o.mixer.kind \o "Mixer { r: "
            \o ToString(o.mixer.r) \o " } }"
    ELSE "PrimitiveWrapper { primitive: SpherePrimitive { radius: "
            \o ToString(o.primitive.radius) \o " }, transform: Transform { "
            \o TransformFmt(o.transform) \o " } }"

\* Object::to_string of the object owned by the box x
to_string(h, x) == DebugFmt(ObjectAt(h, x))

\* PartialEq for Box<Object>
eq(h, x, y) == to_string(h, x) = to_string(h, y)

\* a copy of the node alone: the children boxes are shared
clone_box_shallow(h, x) == BoxNew(h, h[x])

\* clone_box / Clone for Box<Object>, with the derived Clone of Bool and
\* PrimitiveWrapper: every field is cloned, every box re-allocated
RECURSIVE clone_box(_, _)
clone_box(h, x) ==
    IF h[x].node = "Bool"
    THEN LET ca == clone_box(h, h[x].a)
             cb == clone_box(ca.heap, h[x].b)
         IN BoxNew(cb.heap, [node |-> "Bool", a |-> ca.ptr, b |-> cb.ptr,
                             mixer |-> h[x].mixer])
    ELSE BoxNew(h, [node |-> "PrimitiveWrapper",
                    primitive |-> h[x].primitive,
                    transform |-> h[x].transform])

\* the new transform put in front of the stored one
wrapper_apply_transform_inner(h, x, other) ==
    [h EXCEPT ![x].transform = concat(other, h[x].transform)]

\* PrimitiveWrapper::apply_transform
wrapper_apply_transform(h, x, other) ==
    [h EXCEPT ![x].transform = concat(h[x].transform, other)]

\* only the first child receives the transform
RECURSIVE apply_transform_first(_, _, _)
apply_transform_first(h, x, other) ==
    IF h[x].node = "Bool"
    THEN apply_transform_first(h, h[x].a, other)
    ELSE wrapper_apply_transform(h, x, other)

\* Object::apply_transform, dispatched on the node: Bool::apply_transform
\* calls a, then b; a leaf is PrimitiveWrapper::apply_transform
RECURSIVE apply_transform(_, _, _)
apply_transform(h, x, other) ==
    IF h[x].node = "Bool"
    THEN LET ha == apply_transform(h, h[x].a, other)
         IN apply_transform(ha, h[x].b, other)
    ELSE wrapper_apply_transform(h, x, other)

\* Object::translate
translate(h, x, t) == apply_transform(h, x, TransformTranslate(t))

\* Object::rotate
rotate(h, x, r) == apply_transform(h, x, TransformRotate(r))

\* Object::scale
scale(h, x, s) == apply_transform(h, x, TransformScale(s))

\* the caller holds its boxes in two variables, an object and its clone
Handles == {"o", "c"}

\* radii of the spheres and the mixers a caller constructs on the heap; the
\* leaves are told apart by their transforms, the composites by their mixers
SphereRadii == {1}

ObjMixers == {<<"Union", 1>>, <<"Subtraction", 2>>}

\* arguments of the sugar, and the transforms handed to apply_transform
VectorArgs == {"v"}

ScaleArgs == {2}

Elementary ==
    {TransformTranslate(v) : v \in VectorArgs}
        \cup {TransformRotate(v) : v \in VectorArgs}
        \cup {TransformScale(s) : s \in ScaleArgs}

\* transforms built by the caller with concat
Composed ==
    {concat(TransformTranslate(v), TransformScale(s)) : v \in VectorArgs, s \in ScaleArgs}
        \cup {concat(TransformScale(s), TransformRotate(v)) : v \in VectorArgs, s \in ScaleArgs}

TransformArgs == {TransformIdentity} \cup Elementary \cup Composed

\* the leaves of the subtree owned by the box x
Leaves(h, x) == {l \in Cells(h, x) : h[l].node = "PrimitiveWrapper"}

\* total length of the transforms stored in the heap
RECURSIVE SumLen(_, _)
SumLen(h, S) ==
    IF S = {} THEN 0
    ELSE LET x == CHOOSE y \in S : TRUE
         IN (IF h[x].node = "PrimitiveWrapper" THEN Len(h[x].transform) ELSE 0)
                + SumLen(h, S \ {x})

\* the call keeps the stored transforms within the bound
Fits(x, t) ==
    SumLen(heap, Addrs) + Cardinality(Leaves(heap, x)) * Len(t) <= MaxStored

\* caller: Sphere::new(r)
SphereNew(r) ==
    /\ UNCHANGED <<buildVars, normalVars>>
    /\ FreeAddrs(heap) # {}
    /\ Cardinality(roots) < Cardinality(Handles)
    /\ LET n == BoxNew(heap, SphereNewValue(r))
       IN /\ heap' = n.heap
          /\ roots' = roots \cup {n.ptr}

\* caller: Bool::<T>::new(a, b, r); both boxes are moved into the node
BoolNewBox(kind, a, b, r) ==
    /\ UNCHANGED <<buildVars, normalVars>>
    /\ a \in roots /\ b \in roots /\ a # b
    /\ FreeAddrs(heap) # {}
    /\ LET n == BoxNew(heap, BoolNew(kind, a, b, r))
       IN /\ heap' = n.heap
          /\ roots' = (roots \ {a, b}) \cup {n.ptr}

\* caller: let c = x.clone()
Clone(x) ==
    /\ UNCHANGED <<buildVars, normalVars>>
    /\ x \in roots
    /\ Cardinality(FreeAddrs(heap)) >= Size(heap, x)
    /\ Cardinality(roots) < Cardinality(Handles)
    /\ LET n == clone_box(heap, x)
       IN /\ heap' = n.heap
          /\ roots' = roots \cup {n.ptr}

\* caller: x.apply_transform(&t)
ApplyTransform(x, t) ==
    /\ UNCHANGED <<buildVars, normalVars>>
    /\ UNCHANGED roots
    /\ x \in roots
    /\ Fits(x, t)
    /\ heap' = apply_transform(heap, x, t)

\* caller: x.translate(v)
Translate(x, v) ==
    /\ UNCHANGED <<buildVars, normalVars>>
    /\ UNCHANGED roots
    /\ x \in roots
    /\ Fits(x, TransformTranslate(v))
    /\ heap' = translate(heap, x, v)

\* caller: x.rotate(v)
Rotate(x, v) ==
    /\ UNCHANGED <<buildVars, normalVars>>
    /\ UNCHANGED roots
    /\ x \in roots
    /\ Fits(x, TransformRotate(v))
    /\ heap' = rotate(heap, x, v)

\* caller: x.scale(s)
Scale(x, s) ==
    /\ UNCHANGED <<buildVars, normalVars>>
    /\ UNCHANGED roots
    /\ x \in roots
    /\ Fits(x, TransformScale(s))
    /\ heap' = scale(heap, x, s)

\* ------------------------------------- SpecNormal: value and normal at p
\* Float values are kept on an integer grid.
Abs(x) == IF x < 0 THEN -x ELSE x

Min(a, b) == IF a < b THEN a ELSE b

Max(a, b) == IF a > b THEN a ELSE b

\* floor of the square root
ISqrt(n) == CHOOSE k \in 0..n : k * k <= n /\ (k + 1) * (k + 1) > n

\* the test that sends rmin to its blend formula
rmin_blends(a, b, r) == Abs(a - b) < r

\* the test that sends rmax to its blend formula
rmax_blends(a, b, r) == Abs(a - b) < r

\* rmin.  With d = (a-b)/(r*sqrt 2), sin(pi/4 + asin d) = (d + sqrt(1-d^2))/sqrt 2,
\* so the blend formula is (a + b - 2r + sqrt(2r^2 - (a-b)^2)) / 2, rounded
\* down to the grid.
rmin(a, b, r) ==
    IF rmin_blends(a, b, r)
    THEN (a + b - 2 * r + ISqrt(2 * r * r - (a - b) * (a - b))) \div 2
    ELSE Min(a, b)

\* rmax.  sin(pi/4 - asin d) = (sqrt(1-d^2) - d)/sqrt 2, so the blend formula
\* is (a + b + 2r - sqrt(2r^2 - (a-b)^2)) / 2, rounded down to the grid.
rmax(a, b, r) ==
    IF rmax_blends(a, b, r)
    THEN (a + b + 2 * r - ISqrt(2 * r * r - (a - b) * (a - b))) \div 2
    ELSE Max(a, b)

\* the subtraction kernel without the negation of b
mixval_plain(m, a, b) ==
    CASE m.kind = "Union" -> rmin(a, b, m.r)
      [] m.kind = "Intersection" -> rmax(a, b, m.r)
      [] m.kind = "Subtraction" -> rmax(a, b, m.r)

\* Mixer::mixval of UnionMixer, IntersectionMixer, SubtractionMixer
mixval(m, a, b) ==
    CASE m.kind = "Union" -> rmin(a, b, m.r)
      [] m.kind = "Intersection" -> rmax(a, b, m.r)
      [] m.kind = "Subtraction" -> rmax(a, -b, m.r)

\* whether mixval(a, b) is computed by the blend formula
mixval_blends(m, a, b) ==
    CASE m.kind = "Union" -> rmin_blends(a, b, m.r)
      [] m.kind = "Intersection" -> rmax_blends(a, b, m.r)
      [] m.kind = "Subtraction" -> rmax_blends(a, -b, m.r)

\* Mixer::r
mixer_r(m) == m.r

\* the query point and the three offset points of the estimator
P0 == "p"

PX == "p+EPSILON_X"

PY == "p+EPSILON_Y"

PZ == "p+EPSILON_Z"

SamplePoints == {P0, PX, PY, PZ}

\* a call made on a child: child.value(q) or child.normal(q)
CallOf(child, fn, q) == [callee |-> child, fn |-> fn, at |-> q]

\* the vector a child returns from normal(q)
ChildNormal(child, q) == [normal_of |-> child, at |-> q]

\* Vector * -1.
VectorNeg(v) == [neg |-> v]

\* Vector::new(dx, dy, dz).normalize()
VectorNormalize(dx, dy, dz) == [normalize |-> <<dx, dy, dz>>]

\* the closures handed to mixnormal: calling one asks the child for its normal
get_an(q) == [ret |-> ChildNormal("a", q), calls |-> <<CallOf("a", "normal", q)>>]

get_bn(q) == [ret |-> ChildNormal("b", q), calls |-> <<CallOf("b", "normal", q)>>]

\* both suppliers are called before the choice is made
mixnormal_eager(m, a, b, q) ==
    LET an == get_an(q)
        bn == get_bn(q)
        both == an.calls \o bn.calls
    IN CASE m.kind = "Union" ->
              [ret |-> IF a < b THEN an.ret ELSE bn.ret, calls |-> both]
         [] m.kind = "Intersection" ->
              [ret |-> IF a > b THEN an.ret ELSE bn.ret, calls |-> both]
         [] m.kind = "Subtraction" ->
              [ret |-> IF a > -b THEN an.ret ELSE VectorNeg(bn.ret), calls |-> both]

\* Mixer::mixnormal of the three mixers; the suppliers are called at q
mixnormal(m, a, b, q) ==
    CASE m.kind = "Union" -> IF a < b THEN get_an(q) ELSE get_bn(q)
      [] m.kind = "Intersection" -> IF a > b THEN get_an(q) ELSE get_bn(q)
      [] m.kind = "Subtraction" ->
            IF a > -b THEN get_an(q)
            ELSE LET bn == get_bn(q)
                 IN [ret |-> VectorNeg(bn.ret), calls |-> bn.calls]

\* Bool::value at q: both children are evaluated, then mixed
Bool_value(sc, q) ==
    [ret |-> mixval(sc.mixer, sc.fa[q], sc.fb[q]),
     calls |-> <<CallOf("a", "value", q), CallOf("b", "value", q)>>]

\* normal_from_implicit applied to the composite itself
normal_from_implicit(sc) ==
    LET center == Bool_value(sc, P0)
        vx == Bool_value(sc, PX)
        vy == Bool_value(sc, PY)
        vz == Bool_value(sc, PZ)
    IN [ret |-> VectorNormalize(vx.ret - center.ret, vy.ret - center.ret,
                                vz.ret - center.ret),
        calls |-> center.calls \o vx.calls \o vy.calls \o vz.calls,
        path |-> "normal_from_implicit"]

\* Bool::normal at the query point
Bool_normal(sc) ==
    LET va == sc.fa[P0]
        vb == sc.fb[P0]
        first == <<CallOf("a", "value", P0), CallOf("b", "value", P0)>>
    IN IF Abs(va - vb) < mixer_r(sc.mixer)
       THEN LET n == normal_from_implicit(sc)
            IN [n EXCEPT !.calls = first \o n.calls]
       ELSE LET n == mixnormal(sc.mixer, va, vb, P0)
            IN [ret |-> n.ret, calls |-> first \o n.calls, path |-> "mixnormal"]

\* the values a child field takes at the query point
Vals == (-MaxVal)..MaxVal

\* forward differences of a child field along the three axes
Grads == {<<0, 0, 0>>, <<1, 0, 0>>, <<0, 1, -1>>}

\* a child as an opaque ImplicitFunction: its value at the four sample points
Field(c, g) ==
    [q \in SamplePoints |->
        CASE q = P0 -> c [] q = PX -> c + g[1] [] q = PY -> c + g[2]
          [] q = PZ -> c + g[3]]

Fields == {Field(c, g) : c \in Vals, g \in Grads}

NoScene == [mixer |-> "none"]

NoObs == [fn |-> "none"]

\* caller: Bool::<T>::new(a, b, r), and the choice of a query point p
NewScene(kind, r, fa, fb) ==
    /\ UNCHANGED <<buildVars, objVars>>
    /\ scene = NoScene
    /\ scene' = [mixer |-> MixerNew(kind, r), fa |-> fa, fb |-> fb]
    /\ obs' = NoObs

\* caller drops the composite
DropScene ==
    /\ UNCHANGED <<buildVars, objVars>>
    /\ scene # NoScene
    /\ scene' = NoScene
    /\ obs' = NoObs

\* caller: composite.value(p)
Value ==
    /\ UNCHANGED <<buildVars, objVars>>
    /\ scene # NoScene
    /\ obs' = [fn |-> "value"] @@ Bool_value(scene, P0)
    /\ UNCHANGED scene

\* caller: composite.normal(p)
Normal ==
    /\ UNCHANGED <<buildVars, objVars>>
    /\ scene # NoScene
    /\ obs' = [fn |-> "normal"] @@ Bool_normal(scene)
    /\ UNCHANGED scene

\* ------------------------------------------------------- specifications
InitBuild ==
    /\ vec = <<>>
    /\ call = NoCall
    /\ heap = [x \in Addrs |-> Free]
    /\ roots = {}
    /\ scene = NoScene
    /\ obs = NoObs

NextBuild ==
    \/ \E o \in Pool : Push(o)
    \/ \E kind \in MixerKinds, r \in BlendRadii : FromVec(kind, r)
    \/ \E r \in BlendRadii : SubtractionFromVec(r)
    \/ DropResult

SpecBuild == InitBuild /\ [][NextBuild]_vars

InitObj == InitBuild

NextObj ==
    \/ \E r \in SphereRadii : SphereNew(r)
    \/ \E m \in ObjMixers, a \in roots, b \in roots : BoolNewBox(m[1], a, b, m[2])
    \/ \E x \in roots : Clone(x)
    \/ \E x \in roots, t \in TransformArgs : ApplyTransform(x, t)
    \/ \E x \in roots, v \in VectorArgs : Translate(x, v)
    \/ \E x \in roots, v \in VectorArgs : Rotate(x, v)
    \/ \E x \in roots, s \in ScaleArgs : Scale(x, s)

SpecObj == InitObj /\ [][NextObj]_vars

InitNormal == InitBuild

NextNormal ==
    \/ \E kind \in MixerKinds, r \in BlendRadii, fa \in Fields, fb \in Fields :
           NewScene(kind, r, fa, fb)
    \/ Value
    \/ Normal
    \/ DropScene

SpecNormal == InitNormal /\ [][NextNormal]_vars

\* ================================================================ claims
\* ------------------------------------------------ measures of a built tree
RECURSIVE Fringe(_)
Fringe(o) == IF o.node = "Bool" THEN Fringe(o.a) \o Fringe(o.b) ELSE <<o>>

RECURSIVE Composites(_)
Composites(o) ==
    IF o.node = "Bool" THEN 1 + Composites(o.a) + Composites(o.b) ELSE 0

RECURSIVE MixersIn(_)
MixersIn(o) ==
    IF o.node = "Bool" THEN {o.mixer} \cup MixersIn(o.a) \cup MixersIn(o.b) ELSE {}

RECURSIVE Depth(_)
Depth(o) ==
    IF o.node = "Bool" THEN 1 + Max(Depth(o.a), Depth(o.b)) ELSE 0

RECURSIVE Balanced(_)
Balanced(o) ==
    IF o.node = "Bool"
    THEN LET m == Len(Fringe(o))
         IN /\ Len(Fringe(o.a)) = m \div 2
            /\ Len(Fringe(o.b)) = m - (m \div 2)
            /\ Abs(Len(Fringe(o.a)) - Len(Fringe(o.b))) <= 1
            /\ Balanced(o.a)
            /\ Balanced(o.b)
    ELSE TRUE

CeilLog2(n) == CHOOSE k \in 0..n : 2^k >= n /\ (k = 0 \/ 2^(k - 1) < n)

\* C1: from_vec (every mixer) and subtraction_from_vec return None exactly
\* for the empty vector; for a non-empty vector they return Some(object), and
\* no unwrap in them meets a None.
C1_NoneIffEmpty ==
    call # NoCall =>
        /\ ~IsPanic(call.ret)
        /\ (call.ret = None) <=> (call.v = <<>>)
        /\ call.v # <<>> => call.ret.some

\* C1 witness: subtraction_from_vec has returned Some for a vector of three
\* or more, its inner Union::from_vec having folded two or more
C1_Witness ==
    /\ call # NoCall
    /\ call.fn = "subtraction_from_vec"
    /\ Len(call.v) >= 3
    /\ call.ret # None /\ ~IsPanic(call.ret)

\* C2: from_vec of n >= 1 objects returns a tree whose leaves, left to
\* right, are the inputs in order, each once and unmodified; the element
\* itself for n = 1; for n >= 2 one composite over from_vec of the first
\* floor(n/2) elements and from_vec of the rest, with n-1 composites in all,
\* every one of the call's mixer kind and radius.
C2_OrderedFold ==
    (call # NoCall /\ call.fn = "from_vec" /\ Len(call.v) >= 1) =>
        LET n == Len(call.v)
            h == n \div 2
        IN /\ call.ret # None /\ ~IsPanic(call.ret)
           /\ LET t == call.ret.val
              IN /\ Fringe(t) = call.v
                 /\ Composites(t) = n - 1
                 /\ MixersIn(t) \subseteq {MixerNew(call.mixer, call.r)}
                 /\ n = 1 => t = call.v[1]
                 /\ n >= 2 =>
                       /\ t.node = "Bool"
                       /\ Fringe(t.a) = SubSeq(call.v, 1, h)
                       /\ Fringe(t.b) = SubSeq(call.v, h + 1, n)
                       /\ Some(t.a) = from_vec(call.mixer, SubSeq(call.v, 1, h), call.r)
                       /\ Some(t.b) = from_vec(call.mixer, SubSeq(call.v, h + 1, n), call.r)

\* C2 witness: a fold of five objects that are not all equal
C2_Witness ==
    /\ call # NoCall
    /\ call.fn = "from_vec"
    /\ Len(call.v) = 5
    /\ call.v[1] # call.v[2]
    /\ call.ret # None /\ ~IsPanic(call.ret)
    /\ Composites(call.ret.val) = 4

\* C3: subtraction_from_vec([A, B1..Bk], r), k >= 1, builds the tree
\* Subtraction::new(A, Union::from_vec([B1..Bk], r), r): A is the left child
\* of the one Subtraction, the right child is the balanced Union fold of the
\* rest in order, all with radius r; a one-element vector gives the element.
C3_SubtractionShape ==
    (call # NoCall /\ call.fn = "subtraction_from_vec" /\ Len(call.v) >= 1) =>
        LET n == Len(call.v)
            A == Head(call.v)
            rest == Tail(call.v)
        IN /\ call.ret # None /\ ~IsPanic(call.ret)
           /\ n = 1 => call.ret.val = A
           /\ n >= 2 =>
                 LET t == call.ret.val
                     u == from_vec("Union", rest, call.r)
                 IN /\ u # None /\ ~IsPanic(u)
                    /\ t = BoolNew("Subtraction", A, u.val, call.r)
                    /\ t.a = A
                    /\ t.mixer = MixerNew("Subtraction", call.r)
                    /\ Fringe(t.b) = rest
                    /\ MixersIn(t.b) \subseteq {MixerNew("Union", call.r)}
                    /\ Balanced(t.b)

\* C3 witness: a subtraction of three objects from a first one
C3_Witness ==
    /\ call # NoCall
    /\ call.fn = "subtraction_from_vec"
    /\ Len(call.v) = 4
    /\ call.ret # None /\ ~IsPanic(call.ret)
    /\ call.ret.val.node = "Bool"
    /\ call.ret.val.b.node = "Bool"

\* C4: the tree from_vec returns for n >= 1 objects is balanced: every
\* composite over m leaves has floor(m/2) on the left and ceil(m/2) on the
\* right, and the longest root-to-leaf path crosses ceil(log2 n) composites.
C4_Balanced ==
    (call # NoCall /\ call.fn = "from_vec" /\ Len(call.v) >= 1) =>
        /\ call.ret # None /\ ~IsPanic(call.ret)
        /\ Balanced(call.ret.val)
        /\ Depth(call.ret.val) = CeilLog2(Len(call.v))

\* C4 witness: five leaves under a tree of depth three
C4_Witness ==
    /\ call # NoCall
    /\ call.fn = "from_vec"
    /\ Len(call.v) = 5
    /\ call.ret # None /\ ~IsPanic(call.ret)
    /\ Depth(call.ret.val) = 3

\* --------------------------------------------------------- heap measures
\* the object with every leaf transform taken out: shape, mixers, primitives
RECURSIVE Untransformed(_)
Untransformed(o) ==
    IF o.node = "Bool"
    THEN [node |-> "Bool", a |-> Untransformed(o.a), b |-> Untransformed(o.b),
          mixer |-> o.mixer]
    ELSE [node |-> o.node, primitive |-> o.primitive]

\* the second transform of C5: one elementary map
SecondArgs == Elementary

\* a step that transforms the object held in the box x
TransformStep(x) ==
    \/ \E t \in TransformArgs : ApplyTransform(x, t)
    \/ \E v \in VectorArgs : Translate(x, v)
    \/ \E v \in VectorArgs : Rotate(x, v)
    \/ \E s \in ScaleArgs : Scale(x, s)

\* C5: on any object, apply_transform(t1) followed by apply_transform(t2)
\* gives the state that apply_transform(t1.concat(t2)) gives, and every leaf
\* then stores T0.concat(t1).concat(t2), T0 being its transform before.
C5_Accumulates ==
    \A x \in roots : \A t1 \in TransformArgs, t2 \in SecondArgs :
        LET h2 == apply_transform(apply_transform(heap, x, t1), x, t2)
            h12 == apply_transform(heap, x, concat(t1, t2))
        IN /\ h2 = h12
           /\ \A l \in Leaves(heap, x) :
                 h2[l].transform = concat(concat(heap[l].transform, t1), t2)

\* C5 witness: a composite all of whose leaves were transformed, one of
\* them twice with different maps
C5_Witness ==
    \E x \in roots :
        /\ heap[x].node = "Bool"
        /\ \A l \in Leaves(heap, x) : heap[l].transform # TransformIdentity
        /\ \E l \in Leaves(heap, x) :
              Len(heap[l].transform) = 2 /\ heap[l].transform[1] # heap[l].transform[2]

\* C6: a clone is independent of its original: a transforming call on one
\* box leaves the object of every other box as it was, and right after
\* c = clone(o) both have the same string form and compare equal, the
\* original being untouched and no cell shared.
C6_CloneIndependent ==
    [][\A x \in roots :
         /\ TransformStep(x) =>
               \A y \in roots \ {x} :
                   /\ ObjectAt(heap', y) = ObjectAt(heap, y)
                   /\ to_string(heap', y) = to_string(heap, y)
         /\ Clone(x) =>
               LET c == CHOOSE c \in roots' \ roots : TRUE
               IN /\ to_string(heap', c) = to_string(heap', x)
                  /\ eq(heap', c, x)
                  /\ ObjectAt(heap', x) = ObjectAt(heap, x)
                  /\ Cells(heap', c) \cap Cells(heap', x) = {}
      ]_vars

\* C6 witness: a composite and its clone, one of them transformed since
C6_Witness ==
    \E x \in roots, y \in roots :
        /\ x # y
        /\ heap[x].node = "Bool"
        /\ Untransformed(ObjectAt(heap, x)) = Untransformed(ObjectAt(heap, y))
        /\ \A l \in Leaves(heap, x) : heap[l].transform = TransformIdentity
        /\ \A l \in Leaves(heap, y) : heap[l].transform # TransformIdentity

\* what a transforming call with t does to the tree of the box x
TransformEffect(x, t) ==
    /\ roots' = roots
    /\ \A l \in Leaves(heap, x) :
          heap'[l] = [heap[l] EXCEPT !.transform = concat(heap[l].transform, t)]
    /\ \A c \in Addrs \ Leaves(heap, x) : heap'[c] = heap[c]
    /\ Untransformed(ObjectAt(heap', x)) = Untransformed(ObjectAt(heap, x))

\* C9: apply_transform(t), translate, rotate and scale on a tree concatenate
\* t to the stored transform of every leaf exactly once and change nothing
\* else: shape, mixer kinds and radii and primitives stay, and the
\* composite cells, which hold no transform, are left as they were.
C9_TransformOnly ==
    [][\A x \in roots :
         /\ \A t \in TransformArgs : ApplyTransform(x, t) => TransformEffect(x, t)
         /\ \A v \in VectorArgs :
               Translate(x, v) => TransformEffect(x, TransformTranslate(v))
         /\ \A v \in VectorArgs :
               Rotate(x, v) => TransformEffect(x, TransformRotate(v))
         /\ \A s \in ScaleArgs :
               Scale(x, s) => TransformEffect(x, TransformScale(s))
      ]_vars

\* C9 witness: a composite over a composite, all three leaves transformed
C9_Witness ==
    \E x \in roots :
        /\ heap[x].node = "Bool"
        /\ heap[heap[x].a].node = "Bool" \/ heap[heap[x].b].node = "Bool"
        /\ \A l \in Leaves(heap, x) : heap[l].transform # TransformIdentity

\* ------------------------------------------------- value and normal at p
\* the children's values at the query point, and the blend radius
ValA == scene.fa[P0]

ValB == scene.fb[P0]

RadiusOf == scene.mixer.r

KindOf == scene.mixer.kind

NormalCalls == SelectSeq(obs.calls, LAMBDA c : c.fn = "normal")

\* C7: outside the blend band the kernels are the sharp operators: for
\* |a-b| >= r Union.mixval is min(a,b) and Intersection.mixval is max(a,b);
\* for |a+b| >= r Subtraction.mixval is max(a,-b); with r = 0 all are sharp.
C7_SharpOutsideBand ==
    obs.fn = "value" =>
        /\ (KindOf = "Union" /\ Abs(ValA - ValB) >= RadiusOf) =>
              obs.ret = Min(ValA, ValB)
        /\ (KindOf = "Intersection" /\ Abs(ValA - ValB) >= RadiusOf) =>
              obs.ret = Max(ValA, ValB)
        /\ (KindOf = "Subtraction" /\ Abs(ValA + ValB) >= RadiusOf) =>
              obs.ret = Max(ValA, -ValB)
        /\ RadiusOf = 0 =>
              obs.ret = CASE KindOf = "Union" -> Min(ValA, ValB)
                          [] KindOf = "Intersection" -> Max(ValA, ValB)
                          [] KindOf = "Subtraction" -> Max(ValA, -ValB)

\* C7 witness: a subtraction evaluated outside its band with |a-b| < r
C7_Witness ==
    /\ obs.fn = "value"
    /\ KindOf = "Subtraction"
    /\ RadiusOf > 0
    /\ Abs(ValA + ValB) >= RadiusOf
    /\ Abs(ValA - ValB) < RadiusOf
    /\ obs.ret = Max(ValA, -ValB)

\* C8: Bool::normal never calls mixnormal where the same mixer's mixval
\* takes the blend branch; there the finite-difference estimator is used.
C8_NoMixnormalInBand ==
    (obs.fn = "normal" /\ mixval_blends(scene.mixer, ValA, ValB)) =>
        /\ obs.path # "mixnormal"
        /\ obs.path = "normal_from_implicit"

\* C10: in one Bool::normal(p), for |a-b| >= r exactly one child normal is
\* requested, the one the mixer rule selects, and the other supplier is
\* never called; for |a-b| < r no child normal is requested and the result
\* comes from the composite's value at p and at the three offsets only.
C10_LazyNormals ==
    obs.fn = "normal" =>
        IF Abs(ValA - ValB) >= RadiusOf
        THEN LET useA == CASE KindOf = "Union" -> ValA < ValB
                           [] KindOf = "Intersection" -> ValA > ValB
                           [] KindOf = "Subtraction" -> ValA > -ValB
             IN /\ Len(NormalCalls) = 1
                /\ NormalCalls[1] = CallOf(IF useA THEN "a" ELSE "b", "normal", P0)
                /\ obs.ret = IF useA THEN ChildNormal("a", P0)
                              ELSE IF KindOf = "Subtraction"
                                   THEN VectorNeg(ChildNormal("b", P0))
                                   ELSE ChildNormal("b", P0)
        ELSE LET own(q) == mixval(scene.mixer, scene.fa[q], scene.fb[q])
             IN /\ NormalCalls = <<>>
                /\ \A i \in 1..Len(obs.calls) :
                      obs.calls[i].fn = "value" /\ obs.calls[i].at \in SamplePoints
                /\ obs.ret = VectorNormalize(own(PX) - own(P0), own(PY) - own(P0),
                                              own(PZ) - own(P0))

\* C10 witness: a subtraction outside |a-b| < r that returns B's normal negated
C10_Witness ==
    /\ obs.fn = "normal"
    /\ KindOf = "Subtraction"
    /\ RadiusOf > 0
    /\ Abs(ValA - ValB) >= RadiusOf
    /\ obs.ret = VectorNeg(ChildNormal("b", P0))
    /\ Len(NormalCalls) = 1

====
